---- MODULE Spec2Model ----
(***************************************************************************)
(* A model of just-cache-it (src/src/index.ts): the CacheValue slot with   *)
(* its current/previous pair, deep-copy isolation, TTL timer and slot      *)
(* subscribers, and the CacheIt keyed map with its cache-level             *)
(* subscribers.                                                            *)
(*                                                                         *)
(* JavaScript values are records [t, s, r]: t = "u" is undefined, t = "s"  *)
(* a scalar whose literal is s, t = "o" an object whose heap reference is  *)
(* r. The heap is a sequence of object contents; a reference is an index   *)
(* into it, and cloneDeep allocates the next index.                        *)
(***************************************************************************)
EXTENDS Integers, Sequences, FiniteSets, TLC

\* ------------------------------------------------------------- bounds
MaxSlots == 2          \* CacheValue instances ever constructed
MaxRefs == 3           \* objects ever allocated on the heap
MaxTime == 2           \* clock ticks (milliseconds) observed
MaxTtl == 1            \* largest ttl passed to set
MaxSubs == 2           \* slot subscriptions ever made
MaxCacheSubs == 3      \* cache subscriptions ever made
MaxCount == 2          \* the complete-call counter saturates here
NumOriginals == 1      \* objects the caller owns before the first call
MaxParts == 2          \* additional parts passed to generateKey

Keys == {"key", "key2"}
NoTtl == 0 - 1
Contents == {"test", "updated"}
BaseKeys == {"base", ""}
PartValues == {"my", "parts", ""}
Uuids == {"9b1deb4d-3b7d-4bad-9bdd-2b0d7b3dcb6d", "1b9d6bcd-bbfd-4b2d-9b5d-ab8dfbbd4bed"}

\* the handler shapes a slot subscriber registers
Full == [next |-> TRUE, complete |-> TRUE, throws |-> FALSE]
NextOnly == [next |-> TRUE, complete |-> FALSE, throws |-> FALSE]
CompleteOnly == [next |-> FALSE, complete |-> TRUE, throws |-> FALSE]
Throwing == [next |-> TRUE, complete |-> TRUE, throws |-> TRUE]

\* the handlers a cache subscriber registers: one that returns, one that throws
Returns == [throws |-> FALSE]
Throws == [throws |-> TRUE]

\* The runs explored: each bounds the keys, scalars, ttls and handlers the
\* caller uses and how many slots, heap objects, slot and cache subscriptions
\* and clock ticks one behaviour may use. Every operation is available in every
\* scope; a scope only says where exploration stops.
Scopes ==
  { [name |-> "objects", keys |-> {"key"}, scalars |-> {"0"}, ttls |-> {NoTtl, 0},
     shapes |-> {}, cshapes |-> {},
     slots |-> MaxSlots - 1, refs |-> MaxRefs, subs |-> 0, csubs |-> 0, time |-> 0],
    [name |-> "scalars", keys |-> {"key"}, scalars |-> {"0", "", "false", "1"},
     ttls |-> {NoTtl, 0}, shapes |-> {}, cshapes |-> {},
     slots |-> MaxSlots - 1, refs |-> 0, subs |-> 0, csubs |-> 0, time |-> 0],
    [name |-> "observers", keys |-> {"key"}, scalars |-> {"1"}, ttls |-> {NoTtl},
     shapes |-> {Full, NextOnly, CompleteOnly, Throwing}, cshapes |-> {},
     slots |-> MaxSlots - 1, refs |-> 0, subs |-> MaxSubs, csubs |-> 0, time |-> 0],
    [name |-> "cache", keys |-> Keys, scalars |-> {"1"}, ttls |-> {NoTtl},
     shapes |-> {}, cshapes |-> {Returns},
     slots |-> MaxSlots, refs |-> 0, subs |-> 0, csubs |-> MaxCacheSubs - 2, time |-> 0],
    [name |-> "cacheObservers", keys |-> {"key"}, scalars |-> {"1"}, ttls |-> {NoTtl},
     shapes |-> {}, cshapes |-> {Returns, Throws},
     slots |-> MaxSlots - 1, refs |-> 0, subs |-> 0, csubs |-> MaxCacheSubs, time |-> 0],
    [name |-> "timers", keys |-> {"key"}, scalars |-> {"1"}, ttls |-> {NoTtl, MaxTtl},
     shapes |-> {}, cshapes |-> {},
     slots |-> MaxSlots, refs |-> 0, subs |-> 0, csubs |-> 0, time |-> MaxTime],
    [name |-> "expiry", keys |-> {"key"}, scalars |-> {"1"}, ttls |-> {NoTtl, 0},
     shapes |-> {NextOnly}, cshapes |-> {},
     slots |-> MaxSlots, refs |-> 0, subs |-> MaxSubs - 1, csubs |-> 0, time |-> 0],
    [name |-> "staleTimer", keys |-> {"key"}, scalars |-> {"1"}, ttls |-> {NoTtl, 0},
     shapes |-> {}, cshapes |-> {Returns},
     slots |-> MaxSlots, refs |-> 0, subs |-> 0, csubs |-> MaxCacheSubs - 2,
     time |-> 0],
    [name |-> "bothLevels", keys |-> {"key"}, scalars |-> {"1"}, ttls |-> {NoTtl, 0},
     shapes |-> {NextOnly}, cshapes |-> {Returns},
     slots |-> MaxSlots - 1, refs |-> 0, subs |-> MaxSubs - 1,
     csubs |-> MaxCacheSubs - 2, time |-> 0],
    [name |-> "replaced", keys |-> {"key"}, scalars |-> {"1"}, ttls |-> {NoTtl},
     shapes |-> {Full}, cshapes |-> {Returns},
     slots |-> MaxSlots, refs |-> 0, subs |-> MaxSubs - 1,
     csubs |-> MaxCacheSubs - 2, time |-> 0] }

\* ------------------------------------------------------------- values
Undefined == [t |-> "u", s |-> "", r |-> 0]
Scalar(x) == [t |-> "s", s |-> x, r |-> 0]
Ref(i) == [t |-> "o", s |-> "", r |-> i]


\* typeof v === 'object' && v != null
IsObject(v) == v.t = "o"

\* v !== undefined
IsDefined(v) == v.t # "u"

\* JavaScript truthiness, as tested by if (this.value.current)
Truthy(v) == v.t = "o" \/ (v.t = "s" /\ v.s \notin {"0", "", "false"})

VARIABLES
  scope,             \* the exploration scope of this behaviour
  cache,             \* CacheIt.cache: key -> slot id, 0 when the key is absent
  slots,             \* every CacheValue constructed so far, by id
  handlers,          \* slot subscription token -> its handlers and its slot
  cacheSubscribers,  \* CacheIt.subscribers: tokens in insertion order
  cacheHandlers,     \* cache subscription token -> its handler
  heap,              \* object contents by reference
  held,              \* references the caller got back from unwrap calls
  now,               \* the clock
  passed,            \* history: slot id -> references passed to set/update on it
  completeCount,     \* history: token -> number of complete() calls (saturating)
  cancelled,         \* history: slot tokens whose unsubscribe() returned
  cacheCancelled,    \* history: cache tokens whose unsubscribe() returned
  cleared,           \* history: cache tokens removed by CacheIt.unsubscribeAll()
  generator,         \* the CacheKeyGenerator the caller holds, if any
  generated,         \* history: the last CacheItUtils call, with what it returned
  last               \* history: the last call that invokes handlers or returns a
                     \* result, with the handlers it invoked, in order

vars == <<scope, cache, slots, handlers, cacheSubscribers, cacheHandlers, heap, held,
          now, passed, completeCount, cancelled, cacheCancelled, cleared,
          generator, generated, last>>

SlotIds == 1..Len(slots)
Originals == 1..NumOriginals

NoView == [slot |-> 0, current |-> Undefined]

NoOp == [op |-> "none", key |-> "", slot |-> 0, arg |-> Undefined, ttl |-> NoTtl,
         ret |-> FALSE, events |-> <<>>, threw |-> FALSE, seen |-> NoView]

Min(a, b) == IF a < b THEN a ELSE b

\* ------------------------------------------------------------- CacheValue
\* a constructor that hands the subscribers of the latest slot to the new one
NewCacheValueShared(ttl, t) ==
  [current |-> Undefined, previous |-> Undefined,
   subscribers |-> IF slots = <<>> THEN <<>> ELSE slots[Len(slots)].subscribers,
   deadline |-> IF ttl # NoTtl THEN t + ttl ELSE NoTtl, fired |-> FALSE]

\* a freshly constructed slot: both values absent, no subscribers, the timer
\* armed only when a ttl is given
NewCacheValue(ttl, t) ==
  [current |-> Undefined, previous |-> Undefined, subscribers |-> <<>>,
   deadline |-> IF ttl # NoTtl THEN t + ttl ELSE NoTtl, fired |-> FALSE]

\* lodash cloneDeep of an object: a new object with the same content
cloneDeep(h, v) == [heap |-> Append(h, h[v.r]), val |-> Ref(Len(h) + 1)]

\* update keeping the caller's own object instead of a copy
NoIsolateNew(h, value) == [heap |-> h, val |-> value]

\* update's copy of the value it is given
IsolateNew(h, value) ==
  IF IsObject(value) THEN cloneDeep(h, value) ELSE [heap |-> h, val |-> value]

\* update's copy of the current value on its way to previous
IsolateOld(h, cur) ==
  IF IsObject(cur) THEN cloneDeep(h, cur) ELSE [heap |-> h, val |-> cur]

\* the event a slot handler records when invoked
SlotEvent(tok, isComplete) ==
  [lvl |-> "slot", tok |-> tok, ev |-> IF isComplete THEN "complete" ELSE "next"]

RECURSIVE SlotNotifyFrom(_, _, _)
\* subscribers.forEach from position i: a handler that throws ends the pass
SlotNotifyFrom(toks, i, isComplete) ==
  IF i > Len(toks) THEN [events |-> <<>>, threw |-> FALSE]
  ELSE LET h == handlers[toks[i]]
           defined == IF isComplete THEN h.complete ELSE h.next
           rest == SlotNotifyFrom(toks, i + 1, isComplete)
       IN IF ~defined THEN rest
          ELSE IF h.throws
            THEN [events |-> <<SlotEvent(toks[i], isComplete)>>, threw |-> TRUE]
            ELSE [events |-> <<SlotEvent(toks[i], isComplete)>> \o rest.events,
                  threw |-> rest.threw]

\* a pass that visits the subscribers latest first
SlotNotifyLatestFirst(sl, isComplete) ==
  SlotNotifyFrom([i \in DOMAIN sl.subscribers |->
                    sl.subscribers[Len(sl.subscribers) + 1 - i]], 1, isComplete)

\* CacheValue.notifySubscribers(isComplete)
SlotNotify(sl, isComplete) == SlotNotifyFrom(sl.subscribers, 1, isComplete)

\* the event a cache handler records when invoked
CacheEvent(tok) == [lvl |-> "cache", tok |-> tok, ev |-> "call"]

RECURSIVE CacheNotifyFrom(_, _)
\* subscribers.forEach from position i: a handler that throws ends the pass
CacheNotifyFrom(toks, i) ==
  IF i > Len(toks) THEN [events |-> <<>>, threw |-> FALSE]
  ELSE LET rest == CacheNotifyFrom(toks, i + 1)
       IN IF cacheHandlers[toks[i]].throws
            THEN [events |-> <<CacheEvent(toks[i])>>, threw |-> TRUE]
            ELSE [events |-> <<CacheEvent(toks[i])>> \o rest.events,
                  threw |-> rest.threw]

\* CacheIt.notifySubscribers()
CacheNotify(toks) == CacheNotifyFrom(toks, 1)

\* update that also restarts a pending or spent timer from the time of the write
UpdateValueRearm(sl, h, value) ==
  LET old == IsolateOld(h, sl.current)
      new == IsolateNew(old.heap, value)
      note == SlotNotify(sl, FALSE)
  IN [slot |-> [sl EXCEPT !.previous = old.val, !.current = new.val,
                          !.deadline = IF @ # NoTtl THEN now + MaxTtl ELSE @,
                          !.fired = FALSE],
      heap |-> new.heap, events |-> note.events, threw |-> note.threw]

\* update that overwrites current and leaves previous as it was
UpdateValueKeepPrevious(sl, h, value) ==
  LET new == IsolateNew(h, value)
      note == SlotNotify(sl, FALSE)
  IN [slot |-> [sl EXCEPT !.current = new.val],
      heap |-> new.heap, events |-> note.events, threw |-> note.threw]

\* update that also runs the cache-level notification pass
UpdateValueBubble(sl, h, value) ==
  LET old == IsolateOld(h, sl.current)
      new == IsolateNew(old.heap, value)
      note == SlotNotify(sl, FALSE)
      bubble == CacheNotify(cacheSubscribers)
  IN [slot |-> [sl EXCEPT !.previous = old.val, !.current = new.val],
      heap |-> new.heap, events |-> note.events \o bubble.events,
      threw |-> note.threw \/ bubble.threw]

\* CacheValue.update(value): the slot and heap after it, and what it notified
UpdateValue(sl, h, value) ==
  LET old == IsolateOld(h, sl.current)
      new == IsolateNew(old.heap, value)
      note == SlotNotify(sl, FALSE)
  IN [slot |-> [sl EXCEPT !.previous = old.val, !.current = new.val],
      heap |-> new.heap, events |-> note.events, threw |-> note.threw]

\* clear that moves current to previous, as update(undefined) does
ClearValueShift(sl) ==
  LET note == SlotNotify(sl, FALSE)
  IN [slot |-> [sl EXCEPT !.previous = sl.current, !.current = Undefined],
      events |-> note.events, threw |-> note.threw]

\* CacheValue.clear()
ClearValue(sl) ==
  LET note == SlotNotify(sl, FALSE)
  IN [slot |-> [sl EXCEPT !.current = Undefined, !.previous = Undefined],
      events |-> note.events, threw |-> note.threw]

\* objects update(value) allocates on a slot
Allocs(sl, value) ==
  (IF IsObject(sl.current) THEN 1 ELSE 0) + (IF IsObject(value) THEN 1 ELSE 0)

\* slots whose timer is still to fire
Pending == {s \in SlotIds : slots[s].deadline # NoTtl /\ ~slots[s].fired}

\* heap room kept for the pending timers' own update(undefined)
Room(n) == scope.refs = 0 \/ Len(heap) + n + Cardinality(Pending) <= scope.refs

\* values the caller can pass: scalars, its own objects, objects it read back
ScalarInputs == {Scalar(x) : x \in scope.scalars}
ObjectInputs == IF scope.refs = 0 THEN {} ELSE {Ref(r) : r \in Originals \cup held}
ValueInputs == ScalarInputs \cup ObjectInputs

\* ------------------------------------------------------------- CacheIt
\* has as its doc comment describes it: the key exists and is not expired
hasUnexpired(k) == cache[k] # 0 /\ ~slots[cache[k]].fired

\* has that takes a key whose slot is empty for a missing one
hasValue(k) == cache[k] # 0 /\ IsDefined(slots[cache[k]].current)

\* CacheIt.has(key)
has(k) == cache[k] # 0

\* CacheIt.get(key): the slot id, 0 for undefined
get(k) == cache[k]

\* a size that counts every slot ever stored, replaced and removed ones too
sizeEver == Len(slots)

\* CacheIt.size()
size == Cardinality({k \in Keys : cache[k] # 0})

\* ------------------------------------------------------------- operations
\* unwrapCurrent / unwrapPrevious on the stored value v: which handler is
\* called, and the value handed to the caller
Unwrap(v, form) ==
  IF form = "handlers"
    THEN IF Truthy(v) THEN [called |-> "onPresent", given |-> v]
                      ELSE [called |-> "onAbsent", given |-> Undefined]
    ELSE [called |-> "none", given |-> v]

\* Map.delete(symbol) on the insertion-ordered subscriber map
RemoveToken(toks, t) == SelectSeq(toks, LAMBDA x : x # t)

\* the handle's unsubscribe(): complete first, then the map entry is deleted
UnsubscribeValue(sl, t) ==
  LET h == handlers[t]
      events == IF h.complete THEN <<SlotEvent(t, TRUE)>> ELSE <<>>
      threw == h.complete /\ h.throws
  IN [slot |-> IF threw THEN sl
               ELSE [sl EXCEPT !.subscribers = RemoveToken(@, t)],
      events |-> events, threw |-> threw]

\* CacheValue.unsubscribeAll(): complete every subscriber, then clear the map
UnsubscribeAllValue(sl) ==
  LET note == SlotNotify(sl, TRUE)
  IN [slot |-> IF note.threw THEN sl ELSE [sl EXCEPT !.subscribers = <<>>],
      events |-> note.events, threw |-> note.threw]

\* a timer callback that calls clear() instead of update(undefined)
OnTimeoutClear(sl, h) ==
  LET cl == ClearValue(sl)
  IN [slot |-> [cl.slot EXCEPT !.fired = TRUE], heap |-> h,
      events |-> cl.events, threw |-> cl.threw]

\* a timer callback that runs and leaves the slot as it is
OnTimeoutIdle(sl, h) ==
  [slot |-> [sl EXCEPT !.fired = TRUE], heap |-> h, events |-> <<>>, threw |-> FALSE]

\* the constructor's setTimeout callback: this.update(undefined)
OnTimeout(sl, h) ==
  LET up == UpdateValue(sl, h, Undefined)
  IN [slot |-> [up.slot EXCEPT !.fired = TRUE], heap |-> up.heap,
      events |-> up.events, threw |-> up.threw]

\* the timers the environment may still run: nothing in the source cancels one
Runnable == {s \in Pending : now >= slots[s].deadline}

\* complete() calls counted per token, saturating at MaxCount
Counted(events) ==
  [t \in DOMAIN completeCount |->
     IF \E i \in DOMAIN events : events[i].tok = t /\ events[i].ev = "complete"
       THEN Min(completeCount[t] + 1, MaxCount) ELSE completeCount[t]]

\* ------------------------------------------------------------- CacheItUtils
NoGenerator == [made |-> FALSE, baseKey |-> ""]
NoCall == [op |-> "none", baseKey |-> "", additional |-> <<>>, uuid |-> "",
           ret |-> "", threw |-> FALSE]

RECURSIVE joinFrom(_, _, _)
\* Array.prototype.join from index i: the separator goes before every element
\* but the first
joinFrom(parts, sep, i) ==
  IF i > Len(parts) THEN ""
  ELSE (IF i > 1 THEN sep ELSE "") \o parts[i] \o joinFrom(parts, sep, i + 1)

\* additional.join(sep)
join(parts, sep) == joinFrom(parts, sep, 1)

\* a key whose parts are joined like the sections, by '_'
generateKeyWithBaseFlat(hasBase, baseKey, additional, uuid) ==
  LET baseKeyPart == IF hasBase THEN baseKey \o "_" ELSE ""
      additionalPart == IF Len(additional) > 0 THEN join(additional, "_") \o "_"
                        ELSE ""
  IN "$CACHE-IT_" \o baseKeyPart \o additionalPart \o uuid

\* CacheItUtils.generateKeyWithBase(baseKey, ...additional), uuid standing for
\* what uuidv4() returns; hasBase is baseKey != null
generateKeyWithBase(hasBase, baseKey, additional, uuid) ==
  LET baseKeyPart == IF hasBase THEN baseKey \o "_" ELSE ""
      additionalPart == IF Len(additional) > 0 THEN join(additional, "-") \o "_"
                        ELSE ""
  IN "$CACHE-IT_" \o baseKeyPart \o additionalPart \o uuid

\* the argument lists generateKey is called with
PartLists == UNION {[1..n -> PartValues] : n \in 0..MaxParts}

\* the variables of the cache, which the key utilities never touch
cacheVars == <<scope, cache, slots, handlers, cacheSubscribers, cacheHandlers, heap,
               held, now, passed, completeCount, cancelled, cacheCancelled, cleared,
               last>>

\* CacheItUtils.addBaseKey(baseKey): throws on an empty base key
addBaseKey(baseKey) ==
  /\ IF baseKey = ""
       THEN /\ generated' = [NoCall EXCEPT !.op = "addBaseKey", !.baseKey = baseKey,
                                           !.threw = TRUE]
            /\ UNCHANGED generator
       ELSE /\ generated' = [NoCall EXCEPT !.op = "addBaseKey", !.baseKey = baseKey]
            /\ generator' = [made |-> TRUE, baseKey |-> baseKey]
  /\ UNCHANGED cacheVars

\* the generateKey(...additional) of the generator addBaseKey returned
generatorGenerateKey(additional, uuid) ==
  /\ generator.made
  /\ generated' = [NoCall EXCEPT
                     !.op = "generator.generateKey", !.baseKey = generator.baseKey,
                     !.additional = additional, !.uuid = uuid,
                     !.ret = generateKeyWithBase(TRUE, generator.baseKey,
                                                 additional, uuid)]
  /\ UNCHANGED <<generator, cacheVars>>

\* CacheItUtils.generateKey(...additional)
generateKey(additional, uuid) ==
  /\ generated' = [NoCall EXCEPT
                     !.op = "generateKey", !.additional = additional, !.uuid = uuid,
                     !.ret = generateKeyWithBase(FALSE, "", additional, uuid)]
  /\ UNCHANGED <<generator, cacheVars>>

Init ==
  /\ scope \in Scopes
  /\ cache = [k \in Keys |-> 0]
  /\ slots = <<>>
  /\ handlers = <<>>
  /\ cacheSubscribers = <<>>
  /\ cacheHandlers = <<>>
  /\ heap = [i \in Originals |-> "test"]
  /\ held = {}
  /\ now = 0
  /\ passed = <<>>
  /\ completeCount = <<>>
  /\ cancelled = {}
  /\ cacheCancelled = {}
  /\ cleared = {}
  /\ generator = NoGenerator
  /\ generated = NoCall
  /\ last = NoOp

\* what get(k) shows a handler of a set that notifies before it stores the slot
ViewBeforeStore(k, id, sl) ==
  [slot |-> cache[k],
   current |-> IF cache[k] = 0 THEN Undefined ELSE slots[cache[k]].current]

\* what get(k) and unwrapCurrent() show a cache handler invoked by set(k, ...):
\* by then the slot id, already updated to sl, has been stored under k
ViewAtNotify(k, id, sl) ==
  LET stored == [cache EXCEPT ![k] = id]
  IN [slot |-> stored[k], current |-> Unwrap(sl.current, "plain").given]

\* CacheIt.set(key, value, ttl)
Set(k, v, ttl) ==
  /\ Len(slots) < scope.slots
  /\ ttl # NoTtl => now + ttl <= scope.time
  /\ Room((IF IsObject(v) THEN 1 ELSE 0) + (IF ttl # NoTtl THEN 1 ELSE 0))
  /\ LET id == Len(slots) + 1
         up == UpdateValue(NewCacheValue(ttl, now), heap, v)
         note == CacheNotify(cacheSubscribers)
     IN /\ slots' = Append(slots, up.slot)
        /\ heap' = up.heap
        /\ cache' = [cache EXCEPT ![k] = id]
        /\ passed' = Append(passed, IF IsObject(v) THEN {v.r} ELSE {})
        /\ last' = [NoOp EXCEPT !.op = "set", !.key = k, !.slot = id, !.arg = v,
                                !.ttl = ttl,
                                !.events = up.events \o note.events,
                                !.threw = note.threw,
                                !.seen = ViewAtNotify(k, id, up.slot)]
  /\ UNCHANGED <<scope, handlers, cacheSubscribers, cacheHandlers, held, now, completeCount, cancelled, cacheCancelled, cleared, generator, generated>>

\* a delete that also disposes of the removed slot: clears it and drops its
\* subscribers
DeleteDisposing(k) ==
  /\ LET isDeleted == has(k)
         note == IF isDeleted THEN CacheNotify(cacheSubscribers)
                 ELSE [events |-> <<>>, threw |-> FALSE]
     IN /\ cache' = [cache EXCEPT ![k] = 0]
        /\ slots' = IF isDeleted
                      THEN [slots EXCEPT ![cache[k]].current = Undefined,
                                         ![cache[k]].previous = Undefined,
                                         ![cache[k]].subscribers = <<>>]
                      ELSE slots
        /\ last' = [NoOp EXCEPT !.op = "delete", !.key = k, !.slot = cache[k],
                                !.ret = isDeleted,
                                !.events = note.events, !.threw = note.threw]
  /\ UNCHANGED <<scope, handlers, cacheSubscribers, cacheHandlers, heap, held,
                 now, passed, completeCount, cancelled, cacheCancelled, cleared,
                 generator, generated>>

\* CacheIt.delete(key)
Delete(k) ==
  /\ LET isDeleted == has(k)
         note == IF isDeleted THEN CacheNotify(cacheSubscribers)
                 ELSE [events |-> <<>>, threw |-> FALSE]
     IN /\ cache' = [cache EXCEPT ![k] = 0]
        /\ last' = [NoOp EXCEPT !.op = "delete", !.key = k, !.slot = cache[k],
                                !.ret = isDeleted,
                                !.events = note.events, !.threw = note.threw]
  /\ UNCHANGED <<scope, slots, handlers, cacheSubscribers, cacheHandlers, heap, held,
                 now, passed, completeCount, cancelled, cacheCancelled, cleared, generator, generated>>

\* CacheIt.clear()
ClearCache ==
  /\ LET note == CacheNotify(cacheSubscribers)
     IN /\ cache' = [k \in Keys |-> 0]
        /\ last' = [NoOp EXCEPT !.op = "clearCache", !.events = note.events,
                                !.threw = note.threw]
  /\ UNCHANGED <<scope, slots, handlers, cacheSubscribers, cacheHandlers, heap, held,
                 now, passed, completeCount, cancelled, cacheCancelled, cleared, generator, generated>>

\* CacheIt.subscribe(handler)
CacheSubscribe(shape) ==
  /\ Len(cacheHandlers) < scope.csubs
  /\ cacheHandlers' = Append(cacheHandlers, shape)
  /\ cacheSubscribers' = Append(cacheSubscribers, Len(cacheHandlers) + 1)
  /\ last' = NoOp
  /\ UNCHANGED <<scope, cache, slots, handlers, heap, held, now, passed,
                 completeCount, cancelled, cacheCancelled, cleared, generator, generated>>

\* the cache subscription handle's unsubscribe()
CacheUnsubscribe(t) ==
  /\ cacheSubscribers' = RemoveToken(cacheSubscribers, t)
  /\ cacheCancelled' = cacheCancelled \cup {t}
  /\ last' = NoOp
  /\ UNCHANGED <<scope, cache, slots, handlers, cacheHandlers, heap, held, now,
                 passed, completeCount, cancelled, cleared, generator, generated>>

\* an unsubscribeAll that calls every handler a last time before removing it,
\* as the slot's unsubscribeAll does with complete
CacheUnsubscribeAllNotifying ==
  /\ LET note == CacheNotify(cacheSubscribers)
     IN /\ cacheSubscribers' = IF note.threw THEN cacheSubscribers ELSE <<>>
        /\ cleared' = IF note.threw THEN cleared
                      ELSE cleared \cup {cacheSubscribers[i] :
                                           i \in DOMAIN cacheSubscribers}
        /\ last' = [NoOp EXCEPT !.op = "cacheUnsubscribeAll",
                                !.events = note.events, !.threw = note.threw]
  /\ UNCHANGED <<scope, cache, slots, handlers, cacheHandlers, heap, held, now,
                 passed, completeCount, cancelled, cacheCancelled, generator, generated>>

\* CacheIt.unsubscribeAll()
CacheUnsubscribeAll ==
  /\ cacheSubscribers' = <<>>
  /\ cleared' = cleared \cup {cacheSubscribers[i] : i \in DOMAIN cacheSubscribers}
  /\ last' = [NoOp EXCEPT !.op = "cacheUnsubscribeAll"]
  /\ UNCHANGED <<scope, cache, slots, handlers, cacheHandlers, heap, held, now,
                 passed, completeCount, cancelled, cacheCancelled, generator, generated>>

\* CacheValue.update(value), called by the holder of the slot
Update(s, v) ==
  /\ Room(Allocs(slots[s], v))
  /\ LET up == UpdateValue(slots[s], heap, v)
     IN /\ slots' = [slots EXCEPT ![s] = up.slot]
        /\ heap' = up.heap
        /\ passed' = [passed EXCEPT ![s] = IF IsObject(v) THEN @ \cup {v.r} ELSE @]
        /\ last' = [NoOp EXCEPT !.op = "update", !.slot = s, !.arg = v,
                                !.events = up.events, !.threw = up.threw]
  /\ UNCHANGED <<scope, cache, handlers, cacheSubscribers, cacheHandlers, held, now,
                 completeCount, cancelled, cacheCancelled, cleared, generator, generated>>

\* CacheValue.clear()
Clear(s) ==
  /\ LET cl == ClearValue(slots[s])
     IN /\ slots' = [slots EXCEPT ![s] = cl.slot]
        /\ last' = [NoOp EXCEPT !.op = "clear", !.slot = s,
                                !.events = cl.events, !.threw = cl.threw]
  /\ UNCHANGED <<scope, cache, handlers, cacheSubscribers, cacheHandlers, heap, held,
                 now, passed, completeCount, cancelled, cacheCancelled, cleared, generator, generated>>

\* CacheValue.unwrapCurrent(), with or without handlers
UnwrapCurrent(s, form) ==
  /\ LET u == Unwrap(slots[s].current, form)
     IN /\ held' = IF IsObject(u.given) THEN held \cup {u.given.r} ELSE held
        /\ last' = NoOp
  /\ UNCHANGED <<scope, cache, slots, handlers, cacheSubscribers, cacheHandlers, heap,
                 now, passed, completeCount, cancelled, cacheCancelled, cleared, generator, generated>>

\* CacheValue.unwrapPrevious(), with or without handlers
UnwrapPrevious(s, form) ==
  /\ LET u == Unwrap(slots[s].previous, form)
     IN /\ held' = IF IsObject(u.given) THEN held \cup {u.given.r} ELSE held
        /\ last' = NoOp
  /\ UNCHANGED <<scope, cache, slots, handlers, cacheSubscribers, cacheHandlers, heap,
                 now, passed, completeCount, cancelled, cacheCancelled, cleared, generator, generated>>

\* CacheValue.subscribe(handlers)
Subscribe(s, shape) ==
  /\ Len(handlers) < scope.subs
  /\ LET t == Len(handlers) + 1
     IN /\ handlers' = Append(handlers, [slot |-> s, next |-> shape.next,
                                         complete |-> shape.complete,
                                         throws |-> shape.throws])
        /\ slots' = [slots EXCEPT ![s].subscribers = Append(@, t)]
        /\ completeCount' = Append(completeCount, 0)
        /\ last' = NoOp
  /\ UNCHANGED <<scope, cache, cacheSubscribers, cacheHandlers, heap, held, now,
                 passed, cancelled, cacheCancelled, cleared, generator, generated>>

\* the slot subscription handle's unsubscribe()
Unsubscribe(t) ==
  /\ LET s == handlers[t].slot
         un == UnsubscribeValue(slots[s], t)
     IN /\ slots' = [slots EXCEPT ![s] = un.slot]
        /\ completeCount' = Counted(un.events)
        /\ cancelled' = IF un.threw THEN cancelled ELSE cancelled \cup {t}
        /\ last' = [NoOp EXCEPT !.op = "unsubscribe", !.slot = s,
                                !.events = un.events, !.threw = un.threw]
  /\ UNCHANGED <<scope, cache, handlers, cacheSubscribers, cacheHandlers, heap, held,
                 now, passed, cacheCancelled, cleared, generator, generated>>

\* CacheValue.unsubscribeAll()
UnsubscribeAll(s) ==
  /\ LET un == UnsubscribeAllValue(slots[s])
     IN /\ slots' = [slots EXCEPT ![s] = un.slot]
        /\ completeCount' = Counted(un.events)
        /\ last' = [NoOp EXCEPT !.op = "unsubscribeAll", !.slot = s,
                                !.events = un.events, !.threw = un.threw]
  /\ UNCHANGED <<scope, cache, handlers, cacheSubscribers, cacheHandlers, heap, held,
                 now, passed, cancelled, cacheCancelled, cleared, generator, generated>>

\* a timer whose callback updates the slot constructed last, not its own
ExpireLatest(s) ==
  /\ s \in Runnable
  /\ LET latest == Len(slots)
         ex == OnTimeout(slots[latest], heap)
         updated == [slots EXCEPT ![latest] = [ex.slot EXCEPT !.fired = slots[latest].fired]]
     IN /\ slots' = [updated EXCEPT ![s].fired = TRUE]
        /\ heap' = ex.heap
        /\ last' = [NoOp EXCEPT !.op = "expire", !.slot = s,
                                !.events = ex.events, !.threw = ex.threw]
  /\ UNCHANGED <<scope, cache, handlers, cacheSubscribers, cacheHandlers, held, now,
                 passed, completeCount, cancelled, cacheCancelled, cleared, generator,
                 generated>>

\* the timer armed by the constructor fires
Expire(s) ==
  /\ s \in Runnable
  /\ LET ex == OnTimeout(slots[s], heap)
     IN /\ slots' = [slots EXCEPT ![s] = ex.slot]
        /\ heap' = ex.heap
        /\ last' = [NoOp EXCEPT !.op = "expire", !.slot = s,
                                !.events = ex.events, !.threw = ex.threw]
  /\ UNCHANGED <<scope, cache, handlers, cacheSubscribers, cacheHandlers, held, now,
                 passed, completeCount, cancelled, cacheCancelled, cleared, generator, generated>>

\* a millisecond passes
Tick ==
  /\ now < scope.time
  /\ now' = now + 1
  /\ last' = NoOp
  /\ UNCHANGED <<scope, cache, slots, handlers, cacheSubscribers, cacheHandlers, heap,
                 held, passed, completeCount, cancelled, cacheCancelled, cleared, generator, generated>>

\* the caller assigns a field of an object it holds
Mutate(r, c) ==
  /\ heap[r] # c
  /\ heap' = [heap EXCEPT ![r] = c]
  /\ last' = NoOp
  /\ UNCHANGED <<scope, cache, slots, handlers, cacheSubscribers, cacheHandlers, held,
                 now, passed, completeCount, cancelled, cacheCancelled, cleared, generator, generated>>

Next ==
  \/ \E k \in scope.keys, v \in ValueInputs, ttl \in scope.ttls : Set(k, v, ttl)
  \/ \E k \in scope.keys : Delete(k)
  \/ ClearCache
  \/ \E shape \in scope.cshapes : CacheSubscribe(shape)
  \/ \E t \in DOMAIN cacheHandlers : CacheUnsubscribe(t)
  \/ CacheUnsubscribeAll
  \/ \E s \in SlotIds, v \in ValueInputs \cup {Undefined} : Update(s, v)
  \/ \E s \in SlotIds : Clear(s)
  \/ \E s \in SlotIds, form \in {"plain", "handlers"} : UnwrapCurrent(s, form)
  \/ \E s \in SlotIds, form \in {"plain", "handlers"} : UnwrapPrevious(s, form)
  \/ \E s \in SlotIds, shape \in scope.shapes : Subscribe(s, shape)
  \/ \E t \in DOMAIN handlers : Unsubscribe(t)
  \/ \E s \in SlotIds : UnsubscribeAll(s)
  \/ \E s \in SlotIds : Expire(s)
  \/ Tick
  \/ \E v \in ObjectInputs, c \in Contents : Mutate(v.r, c)

Spec == Init /\ [][Next]_vars

\* The runs in which a timer can be armed, under the scheduling the host's
\* timer facility gives: time passes and every due callback is run.
LiveInit == Init /\ scope.ttls # {NoTtl}

LiveSpec ==
  /\ LiveInit /\ [][Next]_vars
  /\ WF_vars(Tick) /\ \A s \in 1..MaxSlots : WF_vars(Expire(s))

\* The key utilities on their own: they are static and share no state with a
\* cache.
UtilsNext ==
  \/ \E baseKey \in BaseKeys : addBaseKey(baseKey)
  \/ \E additional \in PartLists, uuid \in Uuids : generatorGenerateKey(additional, uuid)
  \/ \E additional \in PartLists, uuid \in Uuids : generateKey(additional, uuid)

UtilsSpec == Init /\ [][UtilsNext]_vars

\* ------------------------------------------------------------- what a caller sees
\* a value as toEqual compares it: an object by its content, a scalar by itself
Seen(h, v) == IF IsObject(v) THEN <<"o", h[v.r]>> ELSE <<v.t, v.s>>

\* what unwrapCurrent() and unwrapPrevious() of slot s return, as compared by value
SlotView(sls, h, s) == <<Seen(h, sls[s].current), Seen(h, sls[s].previous)>>

Range(seq) == {seq[i] : i \in DOMAIN seq}

\* the tokens whose handler the last call invoked with event ev at level lvl
Invoked(lvl, ev) ==
  {last.events[i].tok : i \in {j \in DOMAIN last.events :
                                 last.events[j].lvl = lvl /\ last.events[j].ev = ev}}

\* how many times the last call invoked handler ev of token tok at level lvl
Times(lvl, ev, tok) ==
  Cardinality({i \in DOMAIN last.events :
                 last.events[i] = [lvl |-> lvl, tok |-> tok, ev |-> ev]})

\* the last call was a mutation of slot s that runs a slot-level next pass
SlotPass(s) == last.op \in {"update", "clear", "expire"} /\ last.slot = s

\* the last call was a mutation of the cache that runs a cache-level pass
CachePass == last.op \in {"set", "clearCache"} \/ (last.op = "delete" /\ last.ret)

\* the slot subscribers of s that have a next handler
NextSubscribers(s) == {t \in Range(slots[s].subscribers) : handlers[t].next}

\* ------------------------------------------------------------- claims

\* C1: every object handed to the caller by unwrapCurrent/unwrapPrevious is a
\* copy: when the caller mutates an object it got back from an unwrap call, no
\* slot's current or previous, as later unwrap calls return them, changes.
ReadIsolation ==
  [][\A s \in SlotIds :
       (\E r \in held : heap'[r] # heap[r]) =>
         SlotView(slots', heap', s) = SlotView(slots, heap, s)]_vars

\* C2: isolation on write. Right after set/update stores an object v the slot's
\* current is another object equal to v; and when the caller later mutates an
\* object it had passed to set/update on slot s, the current and previous of s,
\* as unwrap returns them, stay as they were.
WriteIsolation ==
  /\ [](last.op \in {"set", "update"} =>
          /\ Seen(heap, slots[last.slot].current) = Seen(heap, last.arg)
          /\ IsObject(last.arg) => slots[last.slot].current # last.arg)
  /\ [][\A s \in SlotIds : \A r \in passed[s] :
          heap'[r] # heap[r] =>
            SlotView(slots', heap', s) = SlotView(slots, heap, s)]_vars

\* C2 witness: the caller has mutated the object it passed to the slot, the
\* copy has moved on to previous, and the slot still shows the old content.
WriteIsolationWitness ==
  \E s \in SlotIds : \E r \in passed[s] :
    /\ heap[r] = "updated"
    /\ IsObject(slots[s].previous)
    /\ heap[slots[s].previous.r] = "test"

\* C3: the handler form of unwrapCurrent/unwrapPrevious calls onPresent exactly
\* when the stored value is defined (0, '' and false included) and onAbsent
\* exactly when it is undefined.
PresenceSemantics ==
  \A s \in SlotIds :
    /\ Unwrap(slots[s].current, "handlers").called
         = IF IsDefined(slots[s].current) THEN "onPresent" ELSE "onAbsent"
    /\ Unwrap(slots[s].previous, "handlers").called
         = IF IsDefined(slots[s].previous) THEN "onPresent" ELSE "onAbsent"

\* C4: the complete callback of a slot subscription is invoked at most once
\* over the subscription's lifetime.
CompleteAtMostOnce == \A t \in DOMAIN completeCount : completeCount[t] <= 1

\* the half of C5 that the code keeps: no mutation invokes the handler of a
\* subscription whose unsubscribe() has returned
UnsubscribedStaysSilent ==
  /\ Invoked("slot", "next") \cap cancelled = {}
  /\ Invoked("cache", "call") \cap cacheCancelled = {}

\* C5: once a subscription's unsubscribe() has returned no later mutation
\* invokes its handler, while the subscribers still registered in that registry
\* are all invoked by each later mutation.
UnsubscribeSilencesOnlyItself ==
  /\ UnsubscribedStaysSilent
  /\ \A s \in SlotIds :
       (SlotPass(s) /\ \E t \in cancelled : handlers[t].slot = s) =>
         NextSubscribers(s) \subseteq Invoked("slot", "next")
  /\ (CachePass /\ cacheCancelled # {}) =>
       Range(cacheSubscribers) \subseteq Invoked("cache", "call")

TtlLiveness ==
  /\ [](\A s \in SlotIds : slots[s].fired => now >= slots[s].deadline)
  /\ [][\A s \in SlotIds :
          /\ (last'.op = "expire" /\ last'.slot = s) =>
               slots'[s].current = Undefined
          /\ (slots[s].current = Undefined /\ ~(last'.op = "update" /\ last'.slot = s))
               => slots'[s].current = Undefined]_vars
  /\ \A s \in 1..MaxSlots :
       (s \in Pending) ~> (s \in SlotIds /\ slots[s].fired
                                          /\ slots[s].current = Undefined)

\* C7 witness: a slot set with a positive ttl, its timer fired at the deadline,
\* its current absent and the value it was created with moved to previous.
TtlLivenessWitness ==
  \E s \in SlotIds :
    /\ slots[s].deadline > 0
    /\ slots[s].fired
    /\ now >= slots[s].deadline
    /\ slots[s].current = Undefined
    /\ IsDefined(slots[s].previous)

\* C8: a timer exists exactly for the slots set with a ttl, its deadline is the
\* creation time plus the ttl and never changes (update neither re-arms nor
\* postpones it), it fires once, not before the deadline, leaving current
\* absent whatever update wrote meanwhile, and a value written after it fired
\* is changed only by update or clear.
TimerFixedAtCreation ==
  [][/\ last'.op = "set" =>
          /\ slots'[last'.slot].deadline
               = IF last'.ttl # NoTtl THEN now + last'.ttl ELSE NoTtl
          /\ ~slots'[last'.slot].fired
     /\ \A s \in SlotIds :
          /\ slots'[s].deadline = slots[s].deadline
          /\ slots[s].fired => slots'[s].fired
          /\ slots'[s].fired # slots[s].fired =>
               /\ last'.op = "expire" /\ last'.slot = s
               /\ slots[s].deadline # NoTtl /\ now >= slots[s].deadline
               /\ slots'[s].current = Undefined
          /\ (last'.op = "expire" /\ last'.slot = s) =>
               ~slots[s].fired /\ slots'[s].fired
          /\ (slots[s].fired /\ slots'[s].current # slots[s].current) =>
               last'.op \in {"update", "clear"}]_vars

\* C8 witness: update wrote a value after the timer of the slot had fired at
\* its deadline, and the value is still there.
TimerFixedAtCreationWitness ==
  \E s \in SlotIds :
    /\ slots[s].deadline = MaxTtl
    /\ slots[s].fired
    /\ last.op = "update" /\ last.slot = s
    /\ IsDefined(slots[s].current)

\* C9: the expiry callback never runs against a slot that has been removed
\* from the cache by delete, clear or a later set on its key.
TimerCancelledOnDiscard ==
  last.op = "expire" => \E k \in Keys : cache[k] = last.slot

\* C10: in every notification pass each registered handler is invoked even if
\* an earlier one throws, and the registry ends as it would have without the
\* throw (empty after unsubscribeAll).
HandlerFailureIsolation ==
  /\ \A s \in SlotIds :
       SlotPass(s) => NextSubscribers(s) \subseteq Invoked("slot", "next")
  /\ CachePass => Range(cacheSubscribers) \subseteq Invoked("cache", "call")
  /\ last.op = "unsubscribeAll" => slots[last.slot].subscribers = <<>>

\* C11: a freshly constructed slot has both values absent; the first update(a)
\* (the one set makes) leaves previous absent and current equal to a; and an
\* update(b) that directly follows an update(a) on the same slot leaves
\* previous equal to a and current equal to b.
History ==
  /\ [](\A ttl \in scope.ttls :
          /\ NewCacheValue(ttl, now).current = Undefined
          /\ NewCacheValue(ttl, now).previous = Undefined)
  /\ [](last.op = "set" =>
          /\ slots[last.slot].previous = Undefined
          /\ Seen(heap, slots[last.slot].current) = Seen(heap, last.arg))
  /\ [][(/\ last.op \in {"set", "update"}
         /\ last'.op = "update" /\ last'.slot = last.slot) =>
           /\ Seen(heap', slots'[last.slot].previous) = Seen(heap, last.arg)
           /\ Seen(heap', slots'[last.slot].current) = Seen(heap', last'.arg)]_vars

\* C11 witness: update(b) has just followed update(a) with a and b two
\* different defined values; previous shows a and current shows b.
HistoryWitness ==
  /\ last.op = "update"
  /\ IsDefined(slots[last.slot].previous)
  /\ IsDefined(slots[last.slot].current)
  /\ Seen(heap, slots[last.slot].previous) # Seen(heap, slots[last.slot].current)

\* C12 as claimed: after every update or clear call on a slot, previous holds
\* the value that was current immediately before the call.
PreviousIsLastCurrent ==
  [][\A s \in SlotIds :
       (last'.op \in {"update", "clear"} /\ last'.slot = s) =>
         Seen(heap', slots'[s].previous) = Seen(heap, slots[s].current)]_vars

\* C12 as amended: previous is absent on a slot just created by set; every
\* update (the expiry's update(undefined) included) leaves in previous the
\* value that was current immediately before it; clear leaves previous absent;
\* and no other call changes what previous refers to.
PreviousTracksUpdates ==
  /\ [](last.op = "set" => slots[last.slot].previous = Undefined)
  /\ [][\A s \in SlotIds :
          /\ (last'.op \in {"update", "expire"} /\ last'.slot = s) =>
               Seen(heap', slots'[s].previous) = Seen(heap, slots[s].current)
          /\ (last'.op = "clear" /\ last'.slot = s) =>
               slots'[s].previous = Undefined
          /\ ~(last'.op \in {"update", "expire", "clear"} /\ last'.slot = s) =>
               slots'[s].previous = slots[s].previous]_vars

\* C12 witness: update(undefined) has just run on a slot that held a value:
\* current is absent and previous holds the value that was current.
PreviousTracksUpdatesWitness ==
  /\ last.op = "update" /\ last.arg = Undefined
  /\ slots[last.slot].current = Undefined
  /\ IsDefined(slots[last.slot].previous)

\* C13: CacheValue.clear() leaves both current and previous absent, invokes
\* the next handler of every subscriber of the slot exactly once and no
\* complete handler, and leaves the subscriber set as it was.
ClearNotifiesEveryone ==
  /\ [](last.op = "clear" =>
          /\ slots[last.slot].current = Undefined
          /\ slots[last.slot].previous = Undefined
          /\ \A t \in NextSubscribers(last.slot) : Times("slot", "next", t) = 1
          /\ Invoked("slot", "complete") = {})
  /\ [][last'.op = "clear" =>
          slots'[last'.slot].subscribers = slots[last'.slot].subscribers]_vars

\* C14: each CacheIt.set, each CacheIt.delete of a present key and each
\* CacheIt.clear (on an empty cache too) invokes every registered cache
\* subscriber exactly once, and a delete of an absent key invokes none.
CacheNotificationCount ==
  /\ CachePass => \A t \in Range(cacheSubscribers) : Times("cache", "call", t) = 1
  /\ (last.op = "delete" /\ ~last.ret) => Invoked("cache", "call") = {}

\* C15: CacheValue.unsubscribeAll() invokes the complete callback of each
\* subscriber registered on the slot exactly once, in subscription order, and
\* no next handler, and leaves the slot's registry empty; on a slot with no
\* subscribers it changes nothing.
UnsubscribeAllCompletesEveryone ==
  [][last'.op = "unsubscribeAll" =>
       LET s == last'.slot
           completing == SelectSeq(slots[s].subscribers,
                                   LAMBDA t : handlers[t].complete)
       IN /\ last'.events = [i \in DOMAIN completing |->
                                SlotEvent(completing[i], TRUE)]
          /\ slots'[s].subscribers = <<>>
          /\ slots[s].subscribers = <<>> => slots' = slots]_vars

\* C16: each CacheIt.set constructs a new slot, distinct from every earlier
\* one, that takes the key's place in the map and starts with no subscribers;
\* the earlier slots keep theirs, no subscription belongs to two slots, and an
\* update, clear or expiry of a slot invokes only handlers subscribed on it.
ReplacementSemantics ==
  /\ [][last'.op = "set" =>
          LET id == last'.slot
          IN /\ id \notin SlotIds
             /\ slots'[id].subscribers = <<>>
             /\ \E k \in Keys : cache'[k] = id /\ cache[k] # id
             /\ \A s \in SlotIds : slots'[s].subscribers = slots[s].subscribers]_vars
  /\ [](\A s \in SlotIds :
          /\ \A t \in Range(slots[s].subscribers) : handlers[t].slot = s
          /\ SlotPass(s) => \A t \in Invoked("slot", "next") : handlers[t].slot = s)

\* C16 witness: the key was set twice, a subscriber with a next handler is
\* still registered on the first slot, and a mutation of the second slot, the
\* one now in the map, has just run without invoking it.
ReplacementSemanticsWitness ==
  /\ Len(slots) = 2
  /\ NextSubscribers(1) # {}
  /\ \E k \in Keys : cache[k] = 2
  /\ SlotPass(2)
  /\ last.events = <<>>

ExpiredEntriesAreHidden ==
  \A k \in Keys :
    /\ has(k) => hasUnexpired(k)
    /\ (cache[k] = 0 \/ slots[cache[k]].fired) => get(k) = 0

\* C19: after set(k, v), get(k) is the slot set constructed and returns, and
\* its unwrapCurrent() equals v; delete(k) returns true exactly when k was
\* present before the call, and after it has(k) is false and get(k) absent; a
\* delete of an absent key returns false and leaves the map as it was.
SetGetDelete ==
  /\ [](last.op = "set" =>
          /\ has(last.key) /\ get(last.key) = last.slot
          /\ Seen(heap, Unwrap(slots[get(last.key)].current, "plain").given)
               = Seen(heap, last.arg))
  /\ [](last.op = "delete" => ~has(last.key) /\ get(last.key) = 0)
  /\ [][last'.op = "delete" =>
          /\ ~last'.threw => last'.ret = (cache[last'.key] # 0)
          /\ \A k \in Keys \ {last'.key} : cache'[k] = cache[k]
          /\ cache[last'.key] = 0 => ~last'.ret /\ cache' = cache]_vars

\* C19 witness: delete has just returned true for a key that set had stored,
\* and another key is still in the map.
SetGetDeleteWitness ==
  /\ last.op = "delete" /\ last.ret /\ ~last.threw
  /\ ~has(last.key)
  /\ size = 1

\* C20: an update, a clear or the expiry of a slot invokes only handlers
\* subscribed on that slot, invokes no cache subscriber, and leaves the map
\* (its keys, the slot under each key, its size) and the cache subscribers
\* as they were.
SlotMutationFrame ==
  /\ [](\A s \in SlotIds : SlotPass(s) =>
          /\ Invoked("cache", "call") = {}
          /\ \A i \in DOMAIN last.events :
               /\ last.events[i].lvl = "slot"
               /\ last.events[i].tok \in Range(slots[s].subscribers))
  /\ [][last'.op \in {"update", "clear", "expire"} =>
          /\ cache' = cache /\ size' = size
          /\ cacheSubscribers' = cacheSubscribers]_vars

\* C20 witness: a mutation of a slot stored in the cache has just invoked the
\* slot's own subscriber while a cache subscriber is registered.
SlotMutationFrameWitness ==
  /\ \E k \in Keys : SlotPass(cache[k])
  /\ Invoked("slot", "next") # {}
  /\ cacheSubscribers # <<>>

\* C21: CacheIt.unsubscribeAll() invokes no handler and leaves the cache
\* registry empty; no later set, delete or clear invokes a handler it removed;
\* and handlers subscribed after it are notified as in any registry: the one
\* subscribed first on every mutation, all of them when none throws.
CacheUnsubscribeAllSilent ==
  /\ last.op = "cacheUnsubscribeAll" => last.events = <<>> /\ cacheSubscribers = <<>>
  /\ Range(cacheSubscribers) \cap cleared = {}
  /\ Invoked("cache", "call") \cap cleared = {}
  /\ (CachePass /\ cleared # {} /\ cacheSubscribers # <<>>) =>
       /\ cacheSubscribers[1] \in Invoked("cache", "call")
       /\ ~last.threw => Range(cacheSubscribers) \subseteq Invoked("cache", "call")

\* C21 witness: unsubscribeAll removed a subscriber, another one subscribed
\* afterwards, and a mutation of the cache has just invoked the latter only.
CacheUnsubscribeAllSilentWitness ==
  /\ cleared # {}
  /\ CachePass
  /\ Invoked("cache", "call") # {}
  /\ Invoked("cache", "call") = Range(cacheSubscribers)

\* a sequence of tokens without a repeated token
Unique(toks) == \A i, j \in DOMAIN toks : toks[i] = toks[j] => i = j

\* C22: every subscribe call makes a registration of its own under a token
\* no other registration has, the same handlers registered twice included;
\* each notification invokes every live registration exactly once; and
\* cancelling one handle removes that registration only.
RegistrationsAreIndependent ==
  /\ [](/\ Unique(cacheSubscribers)
        /\ \A s \in SlotIds : Unique(slots[s].subscribers)
        /\ \A s \in SlotIds : SlotPass(s) =>
             \A t \in NextSubscribers(s) : Times("slot", "next", t) = 1
        /\ CachePass =>
             \A t \in Range(cacheSubscribers) : Times("cache", "call", t) = 1)
  /\ [][/\ Len(cacheSubscribers') > Len(cacheSubscribers) =>
            \E t \in DOMAIN cacheHandlers' \ DOMAIN cacheHandlers :
              cacheSubscribers' = Append(cacheSubscribers, t)
        /\ (Len(cacheSubscribers') < Len(cacheSubscribers)
              /\ last'.op # "cacheUnsubscribeAll") =>
            \E t \in Range(cacheSubscribers) :
              cacheSubscribers' = RemoveToken(cacheSubscribers, t)
        /\ \A s \in SlotIds :
             /\ Len(slots'[s].subscribers) > Len(slots[s].subscribers) =>
                  \E t \in DOMAIN handlers' \ DOMAIN handlers :
                    slots'[s].subscribers = Append(slots[s].subscribers, t)
             /\ (Len(slots'[s].subscribers) < Len(slots[s].subscribers)
                   /\ last'.op # "unsubscribeAll") =>
                  \E t \in Range(slots[s].subscribers) :
                    slots'[s].subscribers = RemoveToken(slots[s].subscribers, t)]_vars

\* C23: size() is the number of keys for which has(key) is true: 0 on a new
\* cache, one more after set on a new key, the same after set on an existing
\* key, one less after a delete that returns true, 0 after clear, and changed
\* by no other call.
SizeCountsKeys ==
  /\ [](/\ size = Cardinality({k \in Keys : has(k)})
        /\ slots = <<>> => size = 0
        /\ last.op = "clearCache" => size = 0)
  /\ [][/\ last'.op = "set" =>
            size' = IF has(last'.key) THEN size ELSE size + 1
        /\ last'.op = "delete" =>
            size' = IF cache[last'.key] # 0 THEN size - 1 ELSE size
        /\ last'.op \notin {"set", "delete", "clearCache"} => size' = size]_vars

\* C23 witness: set on a second key has just brought the size to 2.
SizeCountsKeysWitness ==
  /\ last.op = "set"
  /\ size = 2
  /\ \A k \in Keys : has(k)

RECURSIVE Dashed(_)
\* the parts after the first, each preceded by '-'
Dashed(parts) ==
  IF parts = <<>> THEN "" ELSE "-" \o Head(parts) \o Dashed(Tail(parts))

\* the parts section of a key: p1-p2-...-pn_ for n > 0, nothing for n = 0
PartsSection(parts) ==
  IF parts = <<>> THEN "" ELSE Head(parts) \o Dashed(Tail(parts)) \o "_"

\* C24: addBaseKey(b).generateKey(p1..pn) with a non-empty b returns
\* "$CACHE-IT_" b "_" followed by the parts section and the uuid, and
\* CacheItUtils.generateKey(p1..pn) returns the same without b "_"; the parts
\* are joined by '-' in argument order and closed by '_' when there are any.
KeyFormat ==
  /\ generated.op = "generator.generateKey" =>
       /\ generated.baseKey # ""
       /\ generated.ret = "$CACHE-IT_" \o generated.baseKey \o "_"
                            \o PartsSection(generated.additional) \o generated.uuid
  /\ generated.op = "generateKey" =>
       generated.ret = "$CACHE-IT_" \o PartsSection(generated.additional)
                         \o generated.uuid

\* C24 witness: a generator with a base key has just made a key from two
\* different parts.
KeyFormatWitness ==
  /\ generated.op = "generator.generateKey"
  /\ Len(generated.additional) = 2
  /\ generated.additional[1] # generated.additional[2]
  /\ generated.additional[1] # ""

\* the next events a pass over the subscribers of slot s makes, in order
ExpectedSlotEvents(s) ==
  LET toks == SelectSeq(slots[s].subscribers, LAMBDA t : handlers[t].next)
  IN [i \in DOMAIN toks |-> SlotEvent(toks[i], FALSE)]

\* the calls a pass over the cache subscribers makes, in order
ExpectedCacheEvents ==
  [i \in DOMAIN cacheSubscribers |-> CacheEvent(cacheSubscribers[i])]

\* seq starts with the elements of pre
IsPrefix(pre, seq) ==
  Len(pre) <= Len(seq) /\ \A i \in DOMAIN pre : pre[i] = seq[i]

\* tokens in the order their subscriptions were made
InSubscriptionOrder(toks) == \A i, j \in DOMAIN toks : i < j => toks[i] < toks[j]

\* C25: handlers run inside the call that triggers them, in subscription
\* order: the registries keep subscription order, the handlers a call has
\* invoked are always the first ones of that order, each once, and when
\* update or clear on a slot, or set, delete or clear on the cache, returns,
\* every registered handler has been invoked exactly once by it.
SynchronousInOrder ==
  /\ InSubscriptionOrder(cacheSubscribers)
  /\ \A s \in SlotIds : InSubscriptionOrder(slots[s].subscribers)
  /\ \A s \in SlotIds : SlotPass(s) =>
       /\ IsPrefix(last.events, ExpectedSlotEvents(s))
       /\ ~last.threw => last.events = ExpectedSlotEvents(s)
  /\ CachePass =>
       /\ IsPrefix(last.events, ExpectedCacheEvents)
       /\ ~last.threw => last.events = ExpectedCacheEvents

\* C25 witness: an update or clear of a slot has just returned after invoking
\* its two subscribers, the one subscribed first before the other.
SynchronousInOrderWitness ==
  /\ last.op \in {"update", "clear"}
  /\ ~last.threw
  /\ Len(last.events) = 2
  /\ last.events[1].tok < last.events[2].tok

\* C26: in set(key, value) the value is in the new slot and the slot is in
\* the map before a cache handler runs, so a cache handler finds the new slot
\* under key and reads value from it; set invokes cache handlers only, no
\* next or complete handler of any slot, and leaves the replaced slot and its
\* subscribers as they were.
SetOrdering ==
  /\ [](last.op = "set" =>
          /\ last.seen.slot = last.slot
          /\ Seen(heap, last.seen.current) = Seen(heap, last.arg)
          /\ \A i \in DOMAIN last.events : last.events[i].lvl = "cache")
  /\ [][last'.op = "set" =>
          /\ last'.slot \notin SlotIds
          /\ completeCount' = completeCount
          /\ \A s \in SlotIds : slots'[s] = slots[s]]_vars

\* C26 witness: set has just made a second slot for the key of a slot that
\* has a subscriber whose complete callback was never called, and has invoked
\* a cache handler.
SetOrderingWitness ==
  /\ last.op = "set"
  /\ last.slot = 2
  /\ Invoked("cache", "call") # {}
  /\ \E t \in Range(slots[1].subscribers) :
       handlers[t].complete /\ completeCount[t] = 0

\* C27: the expiry of a slot touches that slot only. When the timer of a slot
\* that is no longer in the map fires, the slot now stored under each key
\* keeps its current and previous, none of its subscribers is invoked, and no
\* cache subscriber is invoked.
StaleTimerSparesLiveEntry ==
  [][last'.op = "expire" =>
       /\ \A s \in SlotIds \ {last'.slot} : slots'[s] = slots[s]
       /\ \A i \in DOMAIN last'.events :
            /\ last'.events[i].lvl = "slot"
            /\ handlers[last'.events[i].tok].slot = last'.slot
       /\ (\A k \in Keys : cache[k] # last'.slot) =>
            \A k \in Keys : cache[k] # 0 =>
              /\ cache'[k] = cache[k]
              /\ SlotView(slots', heap', cache[k]) = SlotView(slots, heap, cache[k])]_vars

\* C27 witness: the timer of the first slot has just fired after a second set
\* took its key; the second slot has a subscriber and still holds its value.
StaleTimerSparesLiveEntryWitness ==
  /\ last.op = "expire" /\ last.slot = 1
  /\ \E k \in Keys : cache[k] = 2
  /\ IsDefined(slots[2].current)
  /\ slots[2].subscribers # <<>>
  /\ last.events = <<>>

\* the slots no key maps to any more
Removed == {s \in SlotIds : \A k \in Keys : cache[k] # s}

\* C28: delete and clear of the cache only remove map entries: every slot,
\* the removed ones included, keeps its current, previous and subscribers, no
\* next or complete handler of a slot is invoked, and a later update or clear
\* of a removed slot still notifies its subscribers, in order, all of them
\* when the call returns.
RemovalLeavesSlotAlone ==
  /\ [][last'.op \in {"delete", "clearCache"} =>
          /\ slots' = slots /\ heap' = heap
          /\ completeCount' = completeCount
          /\ \A i \in DOMAIN last'.events : last'.events[i].lvl = "cache"]_vars
  /\ [](\A s \in Removed : (SlotPass(s) /\ last.op # "expire") =>
          /\ IsPrefix(last.events, ExpectedSlotEvents(s))
          /\ NextSubscribers(s) # {} => last.events # <<>>
          /\ ~last.threw => last.events = ExpectedSlotEvents(s))

\* C28 witness: update on the only slot ever made, which delete or clear has
\* removed from the map, has just notified the slot's subscriber.
RemovalLeavesSlotAloneWitness ==
  /\ last.op = "update"
  /\ Len(slots) = 1
  /\ last.slot \in Removed
  /\ IsDefined(slots[last.slot].current)
  /\ Invoked("slot", "next") # {}

====
